---- MODULE Spec2Model ----
(***************************************************************************)
(* influx-killer: the worker lifecycle and the shutdown protocol of        *)
(* startStress (src/main.go).  One orchestrator goroutine (startStress),   *)
(* one signal listener goroutine, and one goroutine per constructed        *)
(* Worker, communicating over the channels done (unbuffered), cancel       *)
(* (buffered, capacity nw) and sig (buffered, capacity 1).                 *)
(***************************************************************************)
EXTENDS Integers, Sequences, FiniteSets, TLC

\* Largest number of hosts (--num-hosts) explored.
MaxWorkers == 2

\* signal.Notify(sig, SIGHUP, SIGINT, SIGQUIT, SIGTERM)
Signals == {"SIGHUP", "SIGINT", "SIGQUIT", "SIGTERM"}

\* sig := make(chan os.Signal, 1)
SigCap == 1

VARIABLES
    nw,        \* c.Int("num-hosts")
    url,       \* c.String("url")
    db,        \* c.String("db")
    mpc,       \* position of startStress
    i,         \* index of the worker launch loop
    ci,        \* index of the loop of the orchestrator's cancel_workers call
    ai,        \* index of the loop of await_workers (completions received)
    retval,    \* what startStress returned
    lpc,       \* position of the signal listener goroutine
    si,        \* index of the loop of the listener's cancel_workers call
    sig,       \* contents of the channel sig
    cancel,    \* contents of the channel cancel
    wpc,       \* position of each worker goroutine
    wrote,     \* per worker: some call of w.Write has returned
    allErr,    \* per worker: every w.Write so far returned an error
    closeErr,  \* per worker: w.Client.Close returned an error
    closed,    \* per worker: calls of w.Client.Close
    taken,     \* per worker: receives from cancel
    sent       \* per worker: completed sends on done

vars == <<nw, url, db, mpc, i, ci, ai, retval, lpc, si, sig, cancel,
          wpc, wrote, allErr, closeErr, closed, taken, sent>>

mainVars == <<mpc, i, ci, ai, retval>>
listenerVars == <<lpc, si>>
workerVars == <<wpc, wrote, allErr, closeErr, closed, taken, sent>>
cfgVars == <<nw, url, db>>

Workers == 0 .. (MaxWorkers - 1)

\* cancel := make(chan bool, nw)
CancelCap == nw

\* The process is alive until startStress returns (app.Run then returns and
\* main ends, which ends every goroutine).
Alive == mpc # "returned"

Init ==
    /\ nw \in 0 .. MaxWorkers
    /\ url \in {"", "http://h:8086"}
    /\ db \in {"", "custom"}
    /\ mpc = "start"
    /\ i = 0
    /\ ci = 0
    /\ ai = 0
    /\ retval = "none"
    /\ lpc = "off"
    /\ si = 0
    /\ sig = <<>>
    /\ cancel = <<>>
    /\ wpc = [w \in Workers |-> "unborn"]
    /\ wrote = [w \in Workers |-> FALSE]
    /\ allErr = [w \in Workers |-> TRUE]
    /\ closeErr = [w \in Workers |-> FALSE]
    /\ closed = [w \in Workers |-> 0]
    /\ taken = [w \in Workers |-> 0]
    /\ sent = [w \in Workers |-> 0]

(***************************************************************************)
(* startStress                                                             *)
(***************************************************************************)

\* Lines 159-198: read the flags, reject an empty url or db, make the
\* channels, register the signals and start the listener goroutine.
Setup ==
    /\ mpc = "start"
    /\ IF url = ""
         THEN /\ mpc' = "returned"
              /\ retval' = "exit1"
              /\ lpc' = lpc
         ELSE IF db = ""
           THEN /\ mpc' = "returned"
                /\ retval' = "exit2"
                /\ lpc' = lpc
           ELSE /\ mpc' = "launch"
                /\ retval' = retval
                /\ lpc' = "recv"
    /\ UNCHANGED <<i, ci, ai, si, sig, cancel>>
    /\ UNCHANGED workerVars
    /\ UNCHANGED cfgVars

\* NewWorker: client.NewHTTPClient either yields a client or an error, and
\* on an error NewWorker returns nil.
NewWorker(ok) == IF ok THEN "delay" ELSE "nil"

\* Lines 200-209: one iteration of the launch loop, or its exit.
Launch ==
    /\ mpc = "launch"
    /\ IF i < nw
         THEN /\ \E ok \in BOOLEAN : wpc' = [wpc EXCEPT ![i] = NewWorker(ok)]
              /\ i' = i + 1
              /\ mpc' = mpc
         ELSE /\ mpc' = "select"
              /\ UNCHANGED <<wpc, i>>
    /\ UNCHANGED <<ci, ai, retval, sig, cancel>>
    /\ UNCHANGED listenerVars
    /\ UNCHANGED <<wrote, allErr, closeErr, closed, taken, sent>>
    /\ UNCHANGED cfgVars

\* Lines 211-214: the select has the single case <-time.After(...); when the
\* timer fires the orchestrator enters cancel_workers.
Deadline ==
    /\ mpc = "select"
    /\ mpc' = "cancel"
    /\ ci' = 0
    /\ UNCHANGED <<i, ai, retval, sig, cancel>>
    /\ UNCHANGED listenerVars
    /\ UNCHANGED workerVars
    /\ UNCHANGED cfgVars

\* MainCancel with the loop bound off by one (i < nw-1): one token too few.
MainCancel_OneShort ==
    /\ mpc = "cancel"
    /\ IF ci < nw - 1
         THEN /\ Len(cancel) < CancelCap
              /\ cancel' = Append(cancel, TRUE)
              /\ ci' = ci + 1
              /\ UNCHANGED <<mpc, ai>>
         ELSE /\ mpc' = "await"
              /\ ai' = 0
              /\ UNCHANGED <<cancel, ci>>
    /\ UNCHANGED <<i, retval, sig>>
    /\ UNCHANGED listenerVars
    /\ UNCHANGED workerVars
    /\ UNCHANGED cfgVars

\* Lines 179-183 as called at line 213: one send on cancel (blocking while
\* the buffer is full), or the exit of the loop.
MainCancel ==
    /\ mpc = "cancel"
    /\ IF ci < nw
         THEN /\ Len(cancel) < CancelCap
              /\ cancel' = Append(cancel, TRUE)
              /\ ci' = ci + 1
              /\ UNCHANGED <<mpc, ai>>
         ELSE /\ mpc' = "await"
              /\ ai' = 0
              /\ UNCHANGED <<cancel, ci>>
    /\ UNCHANGED <<i, retval, sig>>
    /\ UNCHANGED listenerVars
    /\ UNCHANGED workerVars
    /\ UNCHANGED cfgVars

\* AwaitExit with the loop of await_workers started at 1: one receive too few.
AwaitExit_OneShort ==
    /\ mpc = "await"
    /\ ~(ai + 1 < nw)
    /\ mpc' = "returned"
    /\ retval' = "nil"
    /\ UNCHANGED <<i, ci, ai, sig, cancel>>
    /\ UNCHANGED listenerVars
    /\ UNCHANGED workerVars
    /\ UNCHANGED cfgVars

\* Lines 185-189 and 216-218: the exit of the loop of await_workers, then
\* return nil.  (The receive <-done is the hand-off DoneHandoff below.)
AwaitExit ==
    /\ mpc = "await"
    /\ ~(ai < nw)
    /\ mpc' = "returned"
    /\ retval' = "nil"
    /\ UNCHANGED <<i, ci, ai, sig, cancel>>
    /\ UNCHANGED listenerVars
    /\ UNCHANGED workerVars
    /\ UNCHANGED cfgVars

(***************************************************************************)
(* The signal listener goroutine and the signals                           *)
(***************************************************************************)

\* The os/signal package delivers a registered signal with a non-blocking
\* send on sig: it is dropped when the buffer is full.
Signal(s) ==
    /\ Alive
    /\ lpc # "off"
    /\ sig' = IF Len(sig) < SigCap THEN Append(sig, s) ELSE sig
    /\ UNCHANGED <<cancel>>
    /\ UNCHANGED mainVars
    /\ UNCHANGED listenerVars
    /\ UNCHANGED workerVars
    /\ UNCHANGED cfgVars

\* Line 193: s := <-sig
ListenerRecv ==
    /\ Alive
    /\ lpc = "recv"
    /\ Len(sig) > 0
    /\ sig' = Tail(sig)
    /\ lpc' = "cancel"
    /\ si' = 0
    /\ UNCHANGED <<cancel>>
    /\ UNCHANGED mainVars
    /\ UNCHANGED workerVars
    /\ UNCHANGED cfgVars

\* ListenerCancel with the loop bound off by one (i < nw-1): one token too
\* few.
ListenerCancel_OneShort ==
    /\ Alive
    /\ lpc = "cancel"
    /\ IF si < nw - 1
         THEN /\ Len(cancel) < CancelCap
              /\ cancel' = Append(cancel, TRUE)
              /\ si' = si + 1
              /\ lpc' = lpc
         ELSE /\ lpc' = "done"
              /\ UNCHANGED <<cancel, si>>
    /\ UNCHANGED <<sig>>
    /\ UNCHANGED mainVars
    /\ UNCHANGED workerVars
    /\ UNCHANGED cfgVars

\* ListenerCancel in a listener that loops (for { s := <-sig; ... }): after
\* its cancel_workers call it waits for the next signal.
ListenerCancel_Loops ==
    /\ Alive
    /\ lpc = "cancel"
    /\ IF si < nw
         THEN /\ Len(cancel) < CancelCap
              /\ cancel' = Append(cancel, TRUE)
              /\ si' = si + 1
              /\ lpc' = lpc
         ELSE /\ lpc' = "recv"
              /\ UNCHANGED <<cancel, si>>
    /\ UNCHANGED <<sig>>
    /\ UNCHANGED mainVars
    /\ UNCHANGED workerVars
    /\ UNCHANGED cfgVars

\* Lines 179-183 as called at line 197: one send on cancel, or the exit of
\* the loop and the end of the goroutine.
ListenerCancel ==
    /\ Alive
    /\ lpc = "cancel"
    /\ IF si < nw
         THEN /\ Len(cancel) < CancelCap
              /\ cancel' = Append(cancel, TRUE)
              /\ si' = si + 1
              /\ lpc' = lpc
         ELSE /\ lpc' = "done"
              /\ UNCHANGED <<cancel, si>>
    /\ UNCHANGED <<sig>>
    /\ UNCHANGED mainVars
    /\ UNCHANGED workerVars
    /\ UNCHANGED cfgVars

(***************************************************************************)
(* Worker goroutines                                                       *)
(***************************************************************************)

\* WorkerStart into a loop that looks at cancel only after the sleep, at the
\* bottom of the iteration: the first write begins unchecked.
WorkerStart_CheckAtBottom(w) ==
    /\ Alive
    /\ wpc[w] = "delay"
    /\ wpc' = [wpc EXCEPT ![w] = "write"]
    /\ UNCHANGED <<wrote, allErr, closeErr, closed, taken, sent>>
    /\ UNCHANGED <<sig, cancel>>
    /\ UNCHANGED mainVars
    /\ UNCHANGED listenerVars
    /\ UNCHANGED cfgVars

\* Line 205: the random start delay ends and w.Work() is entered.
WorkerStart(w) ==
    /\ Alive
    /\ wpc[w] = "delay"
    /\ wpc' = [wpc EXCEPT ![w] = "check"]
    /\ UNCHANGED <<wrote, allErr, closeErr, closed, taken, sent>>
    /\ UNCHANGED <<sig, cancel>>
    /\ UNCHANGED mainVars
    /\ UNCHANGED listenerVars
    /\ UNCHANGED cfgVars

\* WorkerCheck whose cancellation branch lacks the w.Client.Close() call:
\* after the receive the worker is at its send on done.
WorkerCheck_NoClose(w) ==
    /\ Alive
    /\ wpc[w] = "check"
    /\ IF Len(cancel) > 0
         THEN /\ cancel' = Tail(cancel)
              /\ taken' = [taken EXCEPT ![w] = @ + 1]
              /\ wpc' = [wpc EXCEPT ![w] = "send"]
         ELSE /\ wpc' = [wpc EXCEPT ![w] = "write"]
              /\ UNCHANGED <<cancel, taken>>
    /\ UNCHANGED <<wrote, allErr, closeErr, closed, sent>>
    /\ UNCHANGED <<sig>>
    /\ UNCHANGED mainVars
    /\ UNCHANGED listenerVars
    /\ UNCHANGED cfgVars

\* Lines 61-77: the select at the top of the loop: receive from cancel when
\* a token is buffered, otherwise the default branch.
WorkerCheck(w) ==
    /\ Alive
    /\ wpc[w] = "check"
    /\ IF Len(cancel) > 0
         THEN /\ cancel' = Tail(cancel)
              /\ taken' = [taken EXCEPT ![w] = @ + 1]
              /\ wpc' = [wpc EXCEPT ![w] = "close"]
         ELSE /\ wpc' = [wpc EXCEPT ![w] = "write"]
              /\ UNCHANGED <<cancel, taken>>
    /\ UNCHANGED <<wrote, allErr, closeErr, closed, sent>>
    /\ UNCHANGED <<sig>>
    /\ UNCHANGED mainVars
    /\ UNCHANGED listenerVars
    /\ UNCHANGED cfgVars

\* WorkerWrite where a write error ends Work (a return in the error branch,
\* before the send on done).
WorkerWrite_ErrReturns(w) ==
    /\ Alive
    /\ wpc[w] = "write"
    /\ \E err \in BOOLEAN :
         /\ allErr' = [allErr EXCEPT ![w] = @ /\ err]
         /\ wpc' = [wpc EXCEPT ![w] = IF err THEN "done" ELSE "sleep"]
    /\ wrote' = [wrote EXCEPT ![w] = TRUE]
    /\ UNCHANGED <<closeErr, closed, taken, sent>>
    /\ UNCHANGED <<sig, cancel>>
    /\ UNCHANGED mainVars
    /\ UNCHANGED listenerVars
    /\ UNCHANGED cfgVars

\* Lines 82-92 and 98-133: w.Write() returns nil or an error (from
\* NewBatchPoints, NewPoint or Client.Write); an error is logged, and the
\* worker goes on to sleep either way.
WorkerWrite(w) ==
    /\ Alive
    /\ wpc[w] = "write"
    /\ \E err \in BOOLEAN :
         allErr' = [allErr EXCEPT ![w] = @ /\ err]
    /\ wrote' = [wrote EXCEPT ![w] = TRUE]
    /\ wpc' = [wpc EXCEPT ![w] = "sleep"]
    /\ UNCHANGED <<closeErr, closed, taken, sent>>
    /\ UNCHANGED <<sig, cancel>>
    /\ UNCHANGED mainVars
    /\ UNCHANGED listenerVars
    /\ UNCHANGED cfgVars

\* WorkerSleep where the sleep is skipped after a failed write and the write
\* is tried again at once.
WorkerSleep_RetryOnErr(w) ==
    /\ Alive
    /\ wpc[w] = "sleep"
    /\ wpc' = [wpc EXCEPT ![w] = IF allErr[w] THEN "write" ELSE "check"]
    /\ UNCHANGED <<wrote, allErr, closeErr, closed, taken, sent>>
    /\ UNCHANGED <<sig, cancel>>
    /\ UNCHANGED mainVars
    /\ UNCHANGED listenerVars
    /\ UNCHANGED cfgVars

\* WorkerSleep in a loop whose select stands before the for statement: after
\* the sleep the next write begins without a new look at cancel.
WorkerSleep_NoRecheck(w) ==
    /\ Alive
    /\ wpc[w] = "sleep"
    /\ wpc' = [wpc EXCEPT ![w] = "write"]
    /\ UNCHANGED <<wrote, allErr, closeErr, closed, taken, sent>>
    /\ UNCHANGED <<sig, cancel>>
    /\ UNCHANGED mainVars
    /\ UNCHANGED listenerVars
    /\ UNCHANGED cfgVars

\* Line 93: time.Sleep(w.Interval) ends; back to the top of the loop.
WorkerSleep(w) ==
    /\ Alive
    /\ wpc[w] = "sleep"
    /\ wpc' = [wpc EXCEPT ![w] = "check"]
    /\ UNCHANGED <<wrote, allErr, closeErr, closed, taken, sent>>
    /\ UNCHANGED <<sig, cancel>>
    /\ UNCHANGED mainVars
    /\ UNCHANGED listenerVars
    /\ UNCHANGED cfgVars

\* WorkerClose where a close error ends Work (a return in the error branch,
\* before the send on done).
WorkerClose_ErrReturns(w) ==
    /\ Alive
    /\ wpc[w] = "close"
    /\ \E err \in BOOLEAN :
         /\ closeErr' = [closeErr EXCEPT ![w] = err]
         /\ wpc' = [wpc EXCEPT ![w] = IF err THEN "done" ELSE "send"]
    /\ closed' = [closed EXCEPT ![w] = @ + 1]
    /\ UNCHANGED <<wrote, allErr, taken, sent>>
    /\ UNCHANGED <<sig, cancel>>
    /\ UNCHANGED mainVars
    /\ UNCHANGED listenerVars
    /\ UNCHANGED cfgVars

\* Lines 66-72: w.Client.Close() returns nil or an error; an error is
\* logged, and the worker goes on to the send on done either way.
WorkerClose(w) ==
    /\ Alive
    /\ wpc[w] = "close"
    /\ \E err \in BOOLEAN : closeErr' = [closeErr EXCEPT ![w] = err]
    /\ closed' = [closed EXCEPT ![w] = @ + 1]
    /\ wpc' = [wpc EXCEPT ![w] = "send"]
    /\ UNCHANGED <<wrote, allErr, taken, sent>>
    /\ UNCHANGED <<sig, cancel>>
    /\ UNCHANGED mainVars
    /\ UNCHANGED listenerVars
    /\ UNCHANGED cfgVars

\* DoneHandoff without the return after the send: the worker goes back to
\* the top of its loop.
DoneHandoff_NoReturn(w) ==
    /\ Alive
    /\ wpc[w] = "send"
    /\ mpc = "await"
    /\ ai < nw
    /\ ai' = ai + 1
    /\ sent' = [sent EXCEPT ![w] = @ + 1]
    /\ wpc' = [wpc EXCEPT ![w] = "check"]
    /\ UNCHANGED <<mpc, i, ci, retval>>
    /\ UNCHANGED <<wrote, allErr, closeErr, closed, taken>>
    /\ UNCHANGED <<sig, cancel>>
    /\ UNCHANGED listenerVars
    /\ UNCHANGED cfgVars

\* Lines 73-74 and 187: done is unbuffered, so w.Done <- true completes
\* together with a receive <-done of await_workers; the worker returns.
DoneHandoff(w) ==
    /\ Alive
    /\ wpc[w] = "send"
    /\ mpc = "await"
    /\ ai < nw
    /\ ai' = ai + 1
    /\ sent' = [sent EXCEPT ![w] = @ + 1]
    /\ wpc' = [wpc EXCEPT ![w] = "done"]
    /\ UNCHANGED <<mpc, i, ci, retval>>
    /\ UNCHANGED <<wrote, allErr, closeErr, closed, taken>>
    /\ UNCHANGED <<sig, cancel>>
    /\ UNCHANGED listenerVars
    /\ UNCHANGED cfgVars

WorkerStep(w) ==
    \/ WorkerStart(w)
    \/ WorkerCheck(w)
    \/ WorkerWrite(w)
    \/ WorkerSleep(w)
    \/ WorkerClose(w)
    \/ DoneHandoff(w)

MainStep ==
    \/ Setup
    \/ Launch
    \/ MainCancel
    \/ AwaitExit

ListenerStep ==
    \/ ListenerRecv
    \/ ListenerCancel

Next ==
    \/ Setup
    \/ Launch
    \/ Deadline
    \/ MainCancel
    \/ AwaitExit
    \/ \E s \in Signals : Signal(s)
    \/ ListenerRecv
    \/ ListenerCancel
    \/ \E w \in Workers : WorkerStart(w)
    \/ \E w \in Workers : WorkerCheck(w)
    \/ \E w \in Workers : WorkerWrite(w)
    \/ \E w \in Workers : WorkerSleep(w)
    \/ \E w \in Workers : WorkerClose(w)
    \/ \E w \in Workers : DoneHandoff(w)

Spec == Init /\ [][Next]_vars

\* Every goroutine that can run is eventually scheduled, every Write, Close
\* and Sleep returns.  Nothing is assumed about the deadline timer or about
\* signals.
Fairness ==
    /\ WF_vars(MainStep)
    /\ WF_vars(ListenerStep)
    /\ \A w \in Workers : WF_vars(WorkerStep(w))

\* The scheduling of the goroutines alone.
SchedSpec == Spec /\ Fairness

\* The scheduling of the goroutines, and the timer of time.After fires.
FairSpec == Spec /\ Fairness /\ WF_vars(Deadline)

TypeOK ==
    /\ nw \in 0 .. MaxWorkers
    /\ mpc \in {"start", "launch", "select", "cancel", "await", "returned"}
    /\ i \in 0 .. nw
    /\ ci \in 0 .. nw
    /\ ai \in 0 .. nw
    /\ retval \in {"none", "nil", "exit1", "exit2"}
    /\ lpc \in {"off", "recv", "cancel", "done"}
    /\ si \in 0 .. nw
    /\ Len(sig) <= SigCap
    /\ Len(cancel) <= CancelCap
    /\ wpc \in [Workers -> {"unborn", "nil", "delay", "check", "write",
                            "sleep", "close", "send", "done"}]
    /\ wrote \in [Workers -> BOOLEAN]
    /\ allErr \in [Workers -> BOOLEAN]

(***************************************************************************)
(* Vocabulary of the properties                                            *)
(***************************************************************************)

\* NewWorker returned a Worker for index w and its goroutine was started.
Constructed(w) == w < i /\ wpc[w] # "nil"

NumConstructed == Cardinality({w \in Workers : Constructed(w)})

\* The launch loop is over and no NewWorker call returned nil.
AllConstructed ==
    /\ mpc \in {"select", "cancel", "await"}
    /\ \A w \in Workers : w < nw => Constructed(w)

\* startStress returned from line 218.
ReturnedNil == mpc = "returned" /\ retval = "nil"

\* The listener goroutine has received a signal.
Interrupted == lpc \in {"cancel", "done"}

\* The worker is in its loop (lines 60-94), cancellation not yet observed.
InLoop(w) == wpc[w] \in {"check", "write", "sleep"}

\* Some cancel_workers call has sent all its nw tokens, or has returned.
BroadcastDone ==
    /\ nw >= 1
    /\ \/ si = nw
       \/ lpc = "done"
       \/ ci = nw
       \/ mpc = "await"
       \/ ReturnedNil

RECURSIVE SumUpTo(_, _)
SumUpTo(f, n) == IF n = 0 THEN 0 ELSE f[n - 1] + SumUpTo(f, n - 1)

\* Completed sends on done, over all workers.
TotalSent == SumUpTo(sent, MaxWorkers)

\* Receives from cancel, over all workers.
TotalTaken == SumUpTo(taken, MaxWorkers)

(***************************************************************************)
(* C1.  Whenever startStress has returned from await_workers, every        *)
(* constructed worker has closed its client, has had its send on done      *)
(* received, and has returned from Work: none is still in its write/sleep  *)
(* loop, and the orchestrator received one completion per worker.          *)
(***************************************************************************)
C1_ReturnOnlyAfterBarrier ==
    ReturnedNil =>
        /\ \A w \in Workers : Constructed(w) =>
              /\ wpc[w] = "done"
              /\ closed[w] = 1
              /\ sent[w] = 1
        /\ ai = NumConstructed

C1_Witness ==
    /\ ReturnedNil
    /\ nw >= 2
    /\ \A w \in Workers : w < nw => (wpc[w] = "done" /\ wrote[w])

(***************************************************************************)
(* C2.  When all nw workers are constructed, then, with the goroutines     *)
(* scheduled fairly and the timer firing, every worker reaches Done and    *)
(* startStress returns nil, whether or not a signal has arrived before     *)
(* the deadline.                                                           *)
(***************************************************************************)
C2_Terminal == ReturnedNil /\ \A w \in Workers : w < nw => wpc[w] = "done"

C2_BothTriggersTerminate ==
    /\ (AllConstructed /\ ~Interrupted) ~> C2_Terminal
    /\ (AllConstructed /\ Interrupted /\ mpc = "select") ~> C2_Terminal

\* Shutdown begun by a signal: the listener sent all its tokens, and the
\* run ended with every worker Done.
C2_Witness ==
    /\ C2_Terminal
    /\ nw >= 2
    /\ lpc = "done"

(***************************************************************************)
(* C3.  The orchestrator waits for as many completions as workers were     *)
(* constructed: once await_workers has received one completion per         *)
(* constructed worker, its loop is over (it is not in another <-done).     *)
(***************************************************************************)
C3_AwaitsConstructedOnly ==
    (mpc = "await" /\ ai = NumConstructed) => ~(ai < nw)

(***************************************************************************)
(* C4.  Once a signal has been received, the orchestrator leaves its       *)
(* trigger wait (the select) and goes on towards await_workers, by the     *)
(* scheduling of the goroutines alone, without the timer firing (stated    *)
(* for runs with at least one worker, all of them constructed).            *)
(***************************************************************************)
C4_InterruptEndsWait ==
    (Interrupted /\ mpc = "select" /\ nw >= 1 /\ AllConstructed)
        ~> (mpc \in {"cancel", "await", "returned"})

(***************************************************************************)
(* C5.  With all nw workers constructed and both the timer and a signal    *)
(* fired, in any interleaving: no worker receives from cancel twice, the   *)
(* orchestrator's cancel_workers completes, and startStress returns after  *)
(* exactly nw completions, every worker having been cancelled once.        *)
(***************************************************************************)
C5_BothFired == Interrupted /\ mpc \in {"cancel", "await"}

C5_BothTriggersNoDeadlock ==
    /\ [](\A w \in Workers : taken[w] <= 1)
    /\ [](ReturnedNil /\ Interrupted =>
            /\ ai = nw
            /\ TotalSent = ai
            /\ \A w \in Workers : Constructed(w) => taken[w] = 1)
    /\ (AllConstructed /\ C5_BothFired /\ mpc = "cancel") ~> (mpc = "await")
    /\ (AllConstructed /\ C5_BothFired) ~> ReturnedNil

\* Both sources sent all their tokens and the run ended.
C5_Witness ==
    /\ ReturnedNil
    /\ nw >= 2
    /\ si = nw
    /\ ci = nw
    /\ ai = nw

(***************************************************************************)
(* C6.  Every constructed worker completes a send on done at most once,    *)
(* and has done so exactly when it has returned from Work; a worker that   *)
(* was not constructed sends nothing; the completions received are the     *)
(* completions sent; and when startStress has returned, every constructed  *)
(* worker has sent exactly one, however many of its writes failed.         *)
(***************************************************************************)
C6_OneCompletionPerWorker ==
    /\ \A w \in Workers :
          /\ sent[w] <= 1
          /\ (sent[w] = 1) <=> (wpc[w] = "done")
          /\ ~Constructed(w) => sent[w] = 0
    /\ TotalSent = ai
    /\ ReturnedNil => \A w \in Workers : Constructed(w) => sent[w] = 1

C6_Witness ==
    /\ ReturnedNil
    /\ \E w \in Workers : sent[w] = 1 /\ wrote[w] /\ allErr[w]
    /\ \E w \in Workers : sent[w] = 1 /\ wrote[w] /\ ~allErr[w]

(***************************************************************************)
(* C7.  A write error is not fatal to the worker: every Write, failed or   *)
(* not, is followed by the sleep (never by another Write, never by the end *)
(* of Work); the sleep is followed by the check at the top of the loop;    *)
(* the worker leaves its loop only from that check, by a receive from      *)
(* cancel; a worker whose every write failed has sent exactly one          *)
(* completion when startStress has returned; and with all workers          *)
(* constructed startStress does return nil.                                *)
(***************************************************************************)
C7_WriteStep(w) ==
    (wpc[w] = "write" /\ (wpc'[w] # "write" \/ wrote'[w] # wrote[w]))
        => (wpc'[w] = "sleep" /\ sent'[w] = sent[w])

C7_SleepStep(w) ==
    (wpc[w] = "sleep" /\ wpc'[w] # "sleep") => wpc'[w] = "check"

C7_LeaveLoop(w) ==
    (InLoop(w) /\ ~InLoop(w)')
        => (wpc[w] = "check" /\ wpc'[w] = "close" /\ taken'[w] = taken[w] + 1)

C7_WriteErrorNonFatal ==
    /\ [][\A w \in Workers : C7_WriteStep(w) /\ C7_SleepStep(w) /\ C7_LeaveLoop(w)]_vars
    /\ [](ReturnedNil =>
            \A w \in Workers : (Constructed(w) /\ allErr[w]) => sent[w] = 1)
    /\ (AllConstructed /\ \E w \in Workers : wrote[w] /\ allErr[w]) ~> ReturnedNil

\* A worker whose writes all returned an error was cancelled and sent its
\* completion; startStress returned nil.
C7_Witness ==
    /\ ReturnedNil
    /\ \E w \in Workers : wrote[w] /\ allErr[w] /\ sent[w] = 1 /\ taken[w] = 1

(***************************************************************************)
(* C8.  A close error does not fail shutdown: a worker whose Close         *)
(* returned an error is at its send on done or has completed it, exactly   *)
(* like a worker whose Close succeeded, and when startStress has returned  *)
(* it returned nil after nw completions, each closed worker among them.    *)
(***************************************************************************)
C8_CloseErrorNonFatal ==
    /\ \A w \in Workers : closed[w] >= 1 =>
          /\ closed[w] = 1
          /\ wpc[w] \in {"send", "done"}
          /\ wpc[w] = "done" => sent[w] = 1
    /\ (mpc = "returned" /\ \E w \in Workers : closed[w] >= 1) =>
          /\ retval = "nil"
          /\ ai = nw
          /\ \A w \in Workers : Constructed(w) => (closed[w] = 1 /\ sent[w] = 1)

\* One worker's Close failed, another's succeeded; both completions were
\* received and startStress returned nil.
C8_Witness ==
    /\ ReturnedNil
    /\ \E w \in Workers : closeErr[w] /\ closed[w] = 1 /\ sent[w] = 1
    /\ \E w \in Workers : ~closeErr[w] /\ closed[w] = 1 /\ sent[w] = 1

(***************************************************************************)
(* C9.  With nw = 0, startStress returns nil as soon as either source      *)
(* fires: once a signal has been received it returns, by the scheduling    *)
(* of the goroutines alone, without the timer firing.                      *)
(***************************************************************************)
C9_ZeroWorkersReturnOnInterrupt ==
    (nw = 0 /\ Interrupted) ~> ReturnedNil

(***************************************************************************)
(* C10.  Cancellation is broadcast once: after one source (the timer or    *)
(* the signal) has sent on cancel, a cancel_workers step of the other      *)
(* source leaves the contents of the channel cancel unchanged.             *)
(***************************************************************************)
C10_SecondTriggerNoOp ==
    [][((si > 0 /\ ci' > ci) \/ (ci > 0 /\ si' > si)) => cancel' = cancel]_vars

(***************************************************************************)
(* C11.  Only the first signal has an effect: once the listener has        *)
(* received a signal it never waits for another one and makes no second    *)
(* cancel_workers call, and a further signal of any recognized kind        *)
(* arriving after that changes nothing but the buffer of sig: no worker,   *)
(* neither cancel_workers call, the cancel channel and startStress are     *)
(* left as they were.                                                      *)
(***************************************************************************)
C11_FurtherSignal == Interrupted /\ sig' # sig

C11_OnlyFirstSignalCounts ==
    /\ [][Interrupted => (Interrupted' /\ si' >= si)]_vars
    /\ [][C11_FurtherSignal =>
            UNCHANGED <<cancel, mainVars, listenerVars, workerVars>>]_vars
    /\ [](si <= nw)

\* A second signal was buffered after the first had been received; the
\* shutdown ran to its end all the same.
C11_Witness ==
    /\ ReturnedNil
    /\ nw >= 1
    /\ lpc = "done"
    /\ Len(sig) = 1

(***************************************************************************)
(* C12.  After a cancel broadcast, each worker's completion is delivered   *)
(* (its send on done completes) by the scheduling of the goroutines alone, *)
(* without the timer firing: once the listener has sent all its tokens     *)
(* and all workers are constructed, every worker reaches Done.             *)
(***************************************************************************)
C12_CompletionWithoutTimer ==
    (AllConstructed /\ nw >= 1 /\ lpc = "done")
        ~> (\A w \in Workers : w < nw => (sent[w] = 1 /\ wpc[w] = "done"))

(***************************************************************************)
(* C13.  Once a cancel broadcast has completed, no worker begins a new     *)
(* write: a worker goes from its write to its sleep and from its sleep to  *)
(* the check, a token is buffered whenever a worker is at its check, and   *)
(* that check takes the cancellation branch.                               *)
(***************************************************************************)
C13_NoNewWrite(w) ==
    (BroadcastDone /\ wpc[w] # "write") => wpc'[w] # "write"

C13_NextCheckCancels(w) ==
    (BroadcastDone /\ wpc[w] = "check" /\ wpc'[w] # "check")
        => (wpc'[w] = "close" /\ taken'[w] = taken[w] + 1)

C13_ObservedWithinOneIteration ==
    /\ [][\A w \in Workers : C13_NoNewWrite(w) /\ C13_NextCheckCancels(w)]_vars
    /\ [][BroadcastDone => BroadcastDone']_vars
    /\ [](BroadcastDone =>
            \A w \in Workers : wpc[w] = "check" => Len(cancel) > 0)

\* The listener's broadcast completed while a worker was in its loop; after
\* its write and sleep the worker's check took the cancellation branch.
C13_Witness ==
    /\ BroadcastDone
    /\ mpc = "select"
    /\ \E w \in Workers : wpc[w] = "close" /\ wrote[w] /\ taken[w] = 1
    /\ \E w \in Workers : wpc[w] = "sleep"

(***************************************************************************)
(* C14.  Cancellation is monotone and reaches every reader: once a cancel  *)
(* broadcast has completed it stays completed; as long as a constructed    *)
(* worker has not received from cancel, a token is buffered for it (no     *)
(* other worker's receive takes it away); and, the goroutines being        *)
(* scheduled fairly, every constructed worker does receive one.            *)
(***************************************************************************)
C14_Pending(w) == Constructed(w) /\ taken[w] = 0

C14_CancellationReachesAll ==
    /\ [][BroadcastDone => BroadcastDone']_vars
    /\ [](BroadcastDone =>
            \A w \in Workers : C14_Pending(w) => Len(cancel) > 0)
    /\ \A w \in Workers : (BroadcastDone /\ C14_Pending(w)) ~> (taken[w] = 1)

\* After the broadcast one worker has received its token and stopped, the
\* other is still in its loop, its token buffered.
C14_Witness ==
    /\ BroadcastDone
    /\ \E w \in Workers : taken[w] = 1 /\ wpc[w] \in {"send", "done"}
    /\ \E w \in Workers : C14_Pending(w) /\ InLoop(w) /\ Len(cancel) > 0

(***************************************************************************)
(* C15.  The check is at the top of every iteration, the first included:   *)
(* a worker that is still in its start delay (or at its first check) when  *)
(* a cancel broadcast has completed never writes, it goes from the delay   *)
(* to the check, to Close, to the send on done and to the end of Work; and *)
(* a worker whose check received from cancel is never again at a write, a  *)
(* sleep or a check.                                                       *)
(***************************************************************************)
C15_NoWritePath(w) ==
    /\ ~wrote[w]
    /\ wpc[w] \in {"delay", "check", "close", "send", "done"}

C15_Order(w) ==
    /\ (wpc[w] = "delay" /\ wpc'[w] # "delay") => wpc'[w] = "check"
    /\ (wpc[w] = "check" /\ wpc'[w] # "check") => wpc'[w] = "close"
    /\ (wpc[w] = "close" /\ wpc'[w] # "close") => wpc'[w] = "send"
    /\ (wpc[w] = "send" /\ wpc'[w] # "send") => wpc'[w] = "done"
    /\ wpc[w] = "done" => wpc'[w] = "done"

C15_CheckBeforeFirstWrite ==
    /\ [][\A w \in Workers :
            (BroadcastDone /\ C15_NoWritePath(w))
                => (C15_NoWritePath(w)' /\ C15_Order(w))]_vars
    /\ [](\A w \in Workers : taken[w] >= 1 => ~InLoop(w))

\* A worker whose start delay ended after the listener's broadcast: it has
\* received its token without having written, and closed its client.
C15_Witness ==
    /\ BroadcastDone
    /\ \E w \in Workers :
          ~wrote[w] /\ taken[w] = 1 /\ closed[w] = 1 /\ wpc[w] = "send"

(***************************************************************************)
(* C16.  Every worker goes Running, Cancelling, Done in this order: Close  *)
(* is called at most once, and exactly once by a worker that has sent its  *)
(* completion or is about to; it is called from the cancellation branch    *)
(* only, after the receive from cancel, with no write in flight; the send  *)
(* on done completes only after Close has returned; and after Close the    *)
(* worker never writes, sleeps or checks again.                            *)
(***************************************************************************)
C16_CloseStep(w) ==
    closed'[w] # closed[w] =>
        /\ closed'[w] = closed[w] + 1
        /\ wpc[w] = "close"
        /\ taken[w] = 1
        /\ sent[w] = 0
        /\ wpc'[w] = "send"

C16_SendStep(w) ==
    sent'[w] # sent[w] =>
        /\ closed[w] = 1
        /\ wpc[w] = "send"
        /\ wpc'[w] = "done"

C16_AfterClose(w) ==
    closed[w] >= 1 =>
        /\ wrote'[w] = wrote[w]
        /\ allErr'[w] = allErr[w]
        /\ wpc'[w] \in {"send", "done"}

C16_LifecycleOrder ==
    /\ [][\A w \in Workers :
            C16_CloseStep(w) /\ C16_SendStep(w) /\ C16_AfterClose(w)]_vars
    /\ [](\A w \in Workers :
            /\ closed[w] <= 1
            /\ (closed[w] = 1) <=> (wpc[w] \in {"send", "done"})
            /\ wpc[w] = "close" => (taken[w] = 1 /\ closed[w] = 0)
            /\ InLoop(w) => (taken[w] = 0 /\ closed[w] = 0 /\ sent[w] = 0))

\* A worker that wrote, was cancelled, closed its client and sent its
\* completion, while another is still between Close and its send.
C16_Witness ==
    /\ \E w \in Workers : wrote[w] /\ closed[w] = 1 /\ sent[w] = 1
    /\ \E w \in Workers : wpc[w] = "send" /\ closed[w] = 1 /\ sent[w] = 0

(***************************************************************************)
(* C17.  Each worker receives from cancel at most once, and a worker that  *)
(* was not constructed never does: the tokens consumed are never more than *)
(* the constructed workers, and every token sent by the two cancel_workers *)
(* calls is either still buffered or was consumed by a worker that has no  *)
(* other.                                                                  *)
(***************************************************************************)
C17_OneTokenPerWorker ==
    /\ \A w \in Workers :
          /\ taken[w] <= 1
          /\ ~Constructed(w) => taken[w] = 0
    /\ TotalTaken <= NumConstructed
    /\ si + ci = Len(cancel) + TotalTaken

\* Both cancel_workers calls sent their tokens: each worker consumed one,
\* the others stay buffered.
C17_Witness ==
    /\ nw >= 2
    /\ si = nw
    /\ ci = nw
    /\ TotalTaken = nw
    /\ Len(cancel) = nw

(***************************************************************************)
(* C18.  The orchestrator's cancel_workers call at the deadline always     *)
(* completes: once startStress is in that call it reaches await_workers,   *)
(* however many workers were constructed and whether or not the listener   *)
(* has sent its own tokens.                                                *)
(***************************************************************************)
C18_MainCancelCompletes ==
    (mpc = "cancel") ~> (mpc \in {"await", "returned"})

====
